---- MODULE Spec2Model ----
(***************************************************************************)
(* A model of hexes: the Application scheduler (hexes/hexes.py), the       *)
(* behaviours render / quit / _edit (hexes/behaviors.py) and the inline    *)
(* editor AsyncTextbox (hexes/aiotextpad.py), run on an asyncio event loop *)
(* (run_forever: each turn serves the callbacks that were ready when the   *)
(* turn started, in FIFO order).  loop.stop() is modelled both ways the    *)
(* interpreters the package supports implement it: as a flag tested at the *)
(* end of the turn, or as a queued callback that raises out of the loop.   *)
(*                                                                         *)
(* Six specifications share the variables:                                *)
(*   Spec        the application: registrations, the loop, polls, render   *)
(*               passes, handlers, edit sessions, quit and teardown;       *)
(*   EditorSpec  the same loop with handlers that start edit sessions and  *)
(*               a user who types every command of the editor's table;     *)
(*   LayoutSpec  Style and Box layout (available space, sizes, corners) of *)
(*               a tree that is styled and sized, without an application;  *)
(*   TreeSpec    the box tree as add_child / add_children build it;        *)
(*   BoxSpec     boxes whose text is set and scrolled and whose dirty      *)
(*               attribute is assigned, without an application;            *)
(*   FairSpec    the application with its registrations made, on a loop    *)
(*               that keeps serving the callbacks it has queued.           *)
(***************************************************************************)
EXTENDS Integers, Sequences, FiniteSets, TLC

(***************************************************************************)
(* Bounds of the model.                                                    *)
(***************************************************************************)
\* how many app.on(...) registrations are made before the loop starts
MaxRegs == 2
\* how many keystrokes the terminal delivers in one run
MaxKeys == 3

(***************************************************************************)
(* The box tree: Root -> (A -> (AA, AB), B), the tree of the test fixture; *)
(* AA and B are editable.                                                  *)
(***************************************************************************)
Boxes == {"Root", "A", "AA", "AB", "B"}

NoBox == "None"

children ==
  [b \in Boxes |->
     CASE b = "Root" -> <<"A", "B">>
       [] b = "A"    -> <<"AA", "AB">>
       [] OTHER      -> <<>>]

parent ==
  [b \in Boxes |->
     CASE b \in {"A", "B"}   -> "Root"
       [] b \in {"AA", "AB"} -> "A"
       [] OTHER              -> NoBox]

editable == [b \in Boxes |-> b \in {"AA", "B"}]

RECURSIVE root(_)
root(b) == IF parent[b] = NoBox THEN b ELSE root(parent[b])

RECURSIVE flatten(_)
flatten(lists) ==
  IF lists = <<>> THEN <<>> ELSE Head(lists) \o flatten(Tail(lists))

RECURSIVE traverse_pre_order(_)
traverse_pre_order(b) ==
  <<b>> \o flatten([i \in 1..Len(children[b]) |->
                      traverse_pre_order(children[b][i])])

(***************************************************************************)
(* Text.  A string is a sequence of one-character strings; text=None is    *)
(* the one-element sequence NoText, which no string of the model equals.   *)
(***************************************************************************)
NoText == <<"None">>

\* the listing a user handler writes into a box (arst.py, show_files)
ListingText == <<"l", "s">>

(***************************************************************************)
(* Keys.  stdscr.getkey() reports a key by name, win.getch() by code.      *)
(***************************************************************************)
Keys == {"q", "k", "^G", "^F", "^H"}

getch(key) ==
  CASE key = "q"  -> 113
    [] key = "k"  -> 107
    [] key = "^G" -> 7
    [] key = "^F" -> 6
    [] key = "^H" -> 8
    [] key = "^A" -> 1
    [] key = "^B" -> 2
    [] key = "^D" -> 4
    [] key = "^E" -> 5
    [] key = "^J" -> 10
    [] key = "^K" -> 11
    [] key = "^L" -> 12
    [] key = "^N" -> 14
    [] key = "^O" -> 15
    [] key = "^P" -> 16

chr(ch) ==
  CASE ch = 113 -> "q"
    [] ch = 107 -> "k"
    [] OTHER    -> "?"

\* curses.ascii.isprint
isprint(ch) == 32 <= ch /\ ch <= 126

VARIABLES
  pc,          \* where the main program is: setup, entered, running, returned, exited
  _registry,   \* Application._registry: event id -> list of handlers
  windows,     \* Application.windows: list of (box, textbox)
  textboxes,   \* the live AsyncTextbox objects, by identity
  ready,       \* the loop's FIFO of callbacks ready to run
  timer,       \* pending call_later(0.1, _process_key) timers
  ntodo,       \* callbacks still to serve in the current turn of the loop
  stopping,    \* loop.stop() was called (the flag)
  stopMode,    \* how this interpreter's loop.stop() works: flag or callback
  closed,      \* loop.close() was called
  dirty,       \* Box.dirty, per box
  text,        \* Box._text, per box
  keysRead,    \* keystrokes delivered so far
  faulted,     \* a fault (KeyboardInterrupt) escaped run_forever
  teardowns,   \* how many times the terminal was torn down
  registered,  \* history: every registration made, per event id, in order
  owed,        \* history: handlers scheduled and not yet run, in order
  sinceQuit,   \* history: callbacks served since quit ran (-1: it has not)
  queuedAtQuit, \* history: callbacks already queued when quit ran
  last,        \* history: the step just taken
  box_children, \* Box.children, per box: the list of its child boxes
  box_parent,  \* Box.parent, per box (NoBox: None)
  style,       \* Box.style, per box
  _available_height, \* Box._available_height, for the boxes where it is set
  _available_width,  \* Box._available_width, for the boxes where it is set
  _text_offset \* Box._text_offset, per box: the first row of the text shown

\* the box tree and its styles
boxVars ==
  <<box_children, box_parent, style, _available_height, _available_width,
    _text_offset>>

vars == <<pc, _registry, windows, textboxes, ready, timer, ntodo, stopping,
          stopMode, closed, dirty, text, keysRead, faulted, teardowns,
          registered, owed, sinceQuit, queuedAtQuit, last, box_children,
          box_parent, style, _available_height, _available_width,
          _text_offset>>

(***************************************************************************)
(* Event ids and user handlers.                                            *)
(***************************************************************************)
\* "xx" is no key name the driver can report, and is not "ready"
EventIds == {"ready", "q", "k", "xx"}

ValidEvent(e) == e = "ready" \/ e \in Keys

\* what the application registers: (event id, handler)
Registrations ==
  { <<"ready", "edit_AA">>, <<"ready", "edit_B">>, <<"k", "edit_B">>,
    <<"q", "quit">>, <<"q", "set_text">>, <<"xx", "quit">> }

Step1(op) == [op |-> op, key |-> "", tb |-> 0, cb |-> "", how |-> ""]

Step5(op, key, tb, cb, how) ==
  [op |-> op, key |-> key, tb |-> tb, cb |-> cb, how |-> how]

(***************************************************************************)
(* The registry: a defaultdict(list).  Reading a missing key inserts an    *)
(* empty list for it.                                                      *)
(***************************************************************************)
getitem(reg, event_id) ==
  IF event_id \in DOMAIN reg THEN reg ELSE reg @@ (event_id :> <<>>)

handlers(reg, event_id) ==
  IF event_id \in DOMAIN reg THEN reg[event_id] ELSE <<>>

\* a registration that replaces the key's list instead of appending to it
_register_replace(reg, event_id, fn) ==
  [getitem(reg, event_id) EXCEPT ![event_id] = <<fn>>]

_register(reg, event_id, fn) ==
  [getitem(reg, event_id) EXCEPT ![event_id] = Append(@, fn)]

\* Application.on: wraps fn as a coroutine function and registers it
on(reg, event, fn) == _register(reg, event, fn)

(***************************************************************************)
(* Callbacks of the loop.  kind is _process_key, render, handler (fn), the *)
(* editor step _edit (textbox tb, completion callback cb, and a validator  *)
(* if the session was started with one) or callback (the completion        *)
(* callback cb bound to textbox tb and its characters).                    *)
(***************************************************************************)
Task(kind, fn, tb, cb, chars) ==
  [kind |-> kind, fn |-> fn, tb |-> tb, cb |-> cb, characters |-> chars,
   validate |-> ""]

PollTask == Task("_process_key", "", 0, "", <<>>)

RenderTask == Task("render", "", 0, "", <<>>)

\* the callback an older loop.stop() queues; it raises out of run_forever
StopTask == Task("_raise_stop_error", "", 0, "", <<>>)

HandlerTask(fn) == Task("handler", fn, 0, "", <<>>)

EditTask(tb, cb) == Task("_edit", "", tb, cb, <<>>)

\* partial(_edit, textbox=tb, validate=validate, callback=cb)
EditTaskV(tb, validate, cb) == [EditTask(tb, cb) EXCEPT !.validate = validate]

CallbackTask(cb, tb, chars) == Task("callback", "", tb, cb, chars)

\* Application.schedule: loop.create_task(coro_func(self)) queues the task
schedule(rdy, task) == Append(rdy, task)

RECURSIVE schedule_all(_, _)
schedule_all(rdy, fns) ==
  IF fns = <<>> THEN rdy
  ELSE schedule_all(schedule(rdy, HandlerTask(Head(fns))), Tail(fns))

Min(a, b) == IF a < b THEN a ELSE b

Max(a, b) == IF a > b THEN a ELSE b

(***************************************************************************)
(* Style and the layout of boxes (hexes.py, Style and Box).  The tree is   *)
(* read through box_children and box_parent.                               *)
(***************************************************************************)
Vertical == "vertical"

Horizontal == "horizontal"

\* Style.Height.Auto and Style.Width.Auto ("fit to available space")
Auto == [kind |-> "auto", n |-> 0]

\* a height or width given as an int
Fixed(n) == [kind |-> "int", n |-> n]

\* Style(): the defaults of the class
Style ==
  [border_collapse |-> TRUE, layout |-> Vertical, min_height |-> 0,
   height |-> Auto, min_width |-> 0, width |-> Auto]

Point(x, y) == [x |-> x, y |-> y]

RECURSIVE sum(_)
sum(s) == IF s = <<>> THEN 0 ELSE Head(s) + sum(Tail(s))

\* list.index: the first position of x in s
index(s, x) ==
  CHOOSE i \in 1..Len(s) : s[i] = x /\ \A j \in 1..(i - 1) : s[j] # x

older_siblings(b) ==
  IF box_parent[b] = NoBox THEN <<>>
  ELSE LET cs == box_children[box_parent[b]]
       IN SubSeq(cs, 1, index(cs, b) - 1)

younger_siblings(b) ==
  IF box_parent[b] = NoBox THEN <<>>
  ELSE LET cs == box_children[box_parent[b]]
       IN SubSeq(cs, index(cs, b) + 1, Len(cs))

siblings_including_self(b) ==
  older_siblings(b) \o <<b>> \o younger_siblings(b)

\* Box.__available_dimension: an explicit override wins, then a fixed size;
\* otherwise the share of the parent's interior, and 2 for a box that has no
\* parent.  floor(inside_main / n + 1) is floor(inside_main / n) + 1.
\* a resolution that tests the style for a fixed size before the override
RECURSIVE __available_dimension_fixed_first(_, _)
__available_dimension_fixed_first(b, main) ==
  LET override == IF main = "height" THEN _available_height
                  ELSE _available_width
      p == box_parent[b]
      full_dimension == IF main = "height" THEN Horizontal ELSE Vertical
      adjustment == IF style[p].border_collapse THEN 0 ELSE 2
      small_adjustment == IF style[p].border_collapse THEN 0 ELSE 1
      sibs == siblings_including_self(b)
      fixed == SelectSeq(sibs, LAMBDA s : style[s][main].kind = "int")
      auto_sibs == SelectSeq(sibs, LAMBDA s : style[s][main] = Auto)
      inside_main == __available_dimension_fixed_first(p, main) - adjustment
  IN IF style[b][main].kind = "int" THEN style[b][main].n
     ELSE IF b \in DOMAIN override THEN override[b]
     ELSE IF p # NoBox
          THEN IF style[p].layout = full_dimension THEN inside_main
               ELSE ((inside_main
                        - sum([i \in 1..Len(fixed) |-> style[fixed[i]][main].n]))
                     \div Len(auto_sibs)) + 1 - small_adjustment
          ELSE 2

RECURSIVE __available_dimension(_, _)
__available_dimension(b, main) ==
  LET override == IF main = "height" THEN _available_height
                  ELSE _available_width
      p == box_parent[b]
      full_dimension == IF main = "height" THEN Horizontal ELSE Vertical
      adjustment == IF style[p].border_collapse THEN 0 ELSE 2
      small_adjustment == IF style[p].border_collapse THEN 0 ELSE 1
      sibs == siblings_including_self(b)
      fixed == SelectSeq(sibs, LAMBDA s : style[s][main].kind = "int")
      auto_sibs == SelectSeq(sibs, LAMBDA s : style[s][main] = Auto)
      inside_main == __available_dimension(p, main) - adjustment
  IN IF b \in DOMAIN override THEN override[b]
     ELSE IF style[b][main].kind = "int" THEN style[b][main].n
     ELSE IF p # NoBox
          THEN IF style[p].layout = full_dimension THEN inside_main
               ELSE ((inside_main
                        - sum([i \in 1..Len(fixed) |-> style[fixed[i]][main].n]))
                     \div Len(auto_sibs)) + 1 - small_adjustment
          ELSE 2

available_height(b) == __available_dimension(b, "height")

available_width(b) == __available_dimension(b, "width")

min_attr(main) == IF main = "height" THEN "min_height" ELSE "min_width"

\* Box.__dimension: an Auto size is the available space, a fixed size is
\* itself; the minimum is consulted for a size that is neither
RECURSIVE __dimension(_, _)
__dimension(b, main) ==
  LET p == box_parent[b]
      adjustment == IF p # NoBox /\ style[p].border_collapse THEN 0 ELSE 2
      cs == box_children[b]
      required_main ==
        sum([i \in 1..Len(cs) |-> __dimension(cs[i], main)]) + adjustment
  IN IF style[b][main] = Auto THEN __available_dimension(b, main)
     ELSE IF style[b][main].kind = "int" THEN style[b][main].n
     ELSE Max(required_main, style[b][min_attr(main)])

height(b) == __dimension(b, "height")

inner_height(b) == height(b) - 2

width(b) == __dimension(b, "width")

inner_width(b) == width(b) - 2

\* Box.upper_left and Box.lower_right
RECURSIVE upper_left(_)
RECURSIVE lower_right(_)
upper_left(b) ==
  LET p == box_parent[b]
      origin == IF p # NoBox THEN upper_left(p) ELSE Point(-1, -1)
      layout == IF p # NoBox THEN style[p].layout ELSE Style.layout
      older == older_siblings(b)
      elder == IF older # <<>> THEN lower_right(older[Len(older)]) ELSE origin
      adjustment == IF p # NoBox /\ style[p].border_collapse THEN 0 ELSE 1
      has_older == IF older # <<>> THEN 1 ELSE 0
  IN IF layout = Horizontal
     THEN Point(elder.x + adjustment - has_older, origin.y + adjustment)
     ELSE Point(origin.x + adjustment, elder.y + adjustment - has_older)

lower_right(b) ==
  LET ul == upper_left(b) IN Point(ul.x + width(b), ul.y + height(b))

\* the terminal is as large as the root of the test fixture: 100 x 100
FixtureSize == 100

(***************************************************************************)
(* AsyncTextbox.                                                           *)
(***************************************************************************)
\* AsyncTextbox.__init__
AsyncTextbox(box) ==
  [box |-> box, is_active |-> FALSE, characters |-> <<>>, cursor |-> 0]

\* curses.ascii codes the command table tests
SOH == 1
STX == 2
EOT == 4
ENQ == 5
ACK == 6
BEL == 7
BS == 8
NL == 10
VT == 11
FF == 12
SO == 14
SI == 15
DLE == 16
KEY_DOWN == 258
KEY_UP == 259
KEY_LEFT == 260
KEY_RIGHT == 261
KEY_BACKSPACE == 263

leftward_keys == {STX, KEY_LEFT, BS, KEY_BACKSPACE}

rightward_keys == {ACK, KEY_RIGHT}

downward_keys == {SO, KEY_DOWN}

upward_keys == {DLE, KEY_UP}

\* what a command returns: None, True or an integer
RetNone == [tag |-> "None", val |-> 0]

RetTrue == [tag |-> "True", val |-> 1]

RetInt(n) == [tag |-> "int", val |-> n]

\* Python truth of a returned value
truthy(ret) == ret.tag = "True" \/ (ret.tag = "int" /\ ret.val # 0)

\* the outcome of a command: the textbox after it, what it returned, and
\* whether it raised (the assertion of bounded)
Outcome(tb, ret, raised) == [tb |-> tb, ret |-> ret, raised |-> raised]

\* a clamp that lets every value through
bounded_unclamped(val, min_, max_) == val

bounded(val, min_, max_) == Min(max_, Max(min_, val))

\* cursor setter: bounded asserts min_ < max_ before it clamps
cursor_setter(tb, val, ret) ==
  IF 0 < Len(tb.characters)
  THEN Outcome([tb EXCEPT !.cursor = bounded(val, 0, Len(tb.characters))],
               ret, FALSE)
  ELSE Outcome(tb, ret, TRUE)

ctrl_f(tb) == cursor_setter(tb, tb.cursor + 1, RetTrue)

\* a terminate command that returns a true value
ctrl_g_continue(tb) == Outcome(tb, RetTrue, FALSE)

ctrl_g(tb) == Outcome(tb, RetInt(0), FALSE)

\* a slice that drops the character after position i: characters[:i + 1] +
\* characters[i + 2:]
without_after(chars, i) ==
  SubSeq(chars, 1, Min(i + 1, Len(chars))) \o SubSeq(chars, i + 3, Len(chars))

\* characters[:i] + characters[i + 1:]
without(chars, i) ==
  SubSeq(chars, 1, Min(i, Len(chars))) \o SubSeq(chars, i + 2, Len(chars))

leftward_key(tb, ch) ==
  LET moved == IF tb.cursor > 0
               THEN cursor_setter(tb, tb.cursor - 1, RetTrue)
               ELSE Outcome(tb, RetTrue, FALSE)
  IN IF moved.raised THEN moved
     ELSE IF ch \in {BS, KEY_BACKSPACE}
          THEN Outcome([moved.tb EXCEPT !.characters =
                          without(moved.tb.characters, moved.tb.cursor)],
                       RetTrue, FALSE)
          ELSE moved

\* an insertion that appends to the buffer wherever the cursor is
_insert_printable_char_append(tb, ch) ==
  LET chars == Append(tb.characters, chr(ch))
  IN IF 0 < Len(chars)
     THEN Outcome([tb EXCEPT !.characters = chars,
                             !.cursor = Min(tb.cursor + 1, Len(chars))],
                  RetTrue, FALSE)
     ELSE Outcome(tb, RetTrue, TRUE)

_insert_printable_char(tb, ch) ==
  LET c == tb.cursor
      chars == SubSeq(tb.characters, 1, Min(c, Len(tb.characters)))
               \o <<chr(ch)>>
               \o SubSeq(tb.characters, c + 1, Len(tb.characters))
  IN cursor_setter([tb EXCEPT !.characters = chars], c + 1, RetTrue)

\* the pad is inner_width rows by 1000 columns and its cursor never leaves
\* the first row before column 999, so y < maxy or x < maxx holds
do_printable_char(tb, ch) == _insert_printable_char(tb, ch)

\* the commands that only move the pad's cursor or redraw the pad: they
\* leave characters and cursor alone and return nothing
ctrl_a(tb) == Outcome(tb, RetNone, FALSE)

ctrl_d(tb) == Outcome(tb, RetNone, FALSE)

ctrl_e(tb) == Outcome(tb, RetNone, FALSE)

ctrl_k(tb) == Outcome(tb, RetNone, FALSE)

ctrl_l(tb) == Outcome(tb, RetNone, FALSE)

ctrl_n(tb) == Outcome(tb, RetNone, FALSE)

ctrl_o(tb) == Outcome(tb, RetNone, FALSE)

ctrl_p(tb) == Outcome(tb, RetNone, FALSE)

\* AsyncTextbox.maxy: the pad of a box has inner_width rows (add_window), and
\* maxy is the number of rows less one
maxy(tb) == inner_width(tb.box) - 1

\* newline: terminate on a one-row pad, else move down and return nothing
ctrl_j(tb) ==
  IF maxy(tb) = 0 THEN Outcome(tb, RetInt(0), FALSE)
  ELSE Outcome(tb, RetNone, FALSE)

\* the entries of the_big_map are tried in order: an action that returns a
\* value ends the command with it; after one that returns nothing the scan
\* goes on, no later predicate holds, and None is returned.  A code that
\* matches no entry is returned as it is.
do_command(tb, ch) ==
  CASE isprint(ch)            -> do_printable_char(tb, ch)
    [] ch = SOH               -> ctrl_a(tb)
    [] ch \in leftward_keys   -> leftward_key(tb, ch)
    [] ch = EOT               -> ctrl_d(tb)
    [] ch = ENQ               -> ctrl_e(tb)
    [] ch \in rightward_keys  -> ctrl_f(tb)
    [] ch = BEL               -> ctrl_g(tb)
    [] ch = NL                -> ctrl_j(tb)
    [] ch = VT                -> ctrl_k(tb)
    [] ch = FF                -> ctrl_l(tb)
    [] ch \in downward_keys   -> ctrl_n(tb)
    [] ch = SI                -> ctrl_o(tb)
    [] ch \in upward_keys     -> ctrl_p(tb)
    [] OTHER                  -> Outcome(tb, RetInt(ch), FALSE)

\* the validators a session is started with: "" is validate=None; no_k
\* rejects the letter k by returning 0 and passes every other key
validate(v, ch) == IF v = "no_k" /\ ch = getch("k") THEN 0 ELSE ch

(***************************************************************************)
(* Box.text setter: stores the text and marks the root of the box dirty.   *)
(***************************************************************************)
text_setter(txt, b, val) == [txt EXCEPT ![b] = val]

\* a setter that marks the box itself, not its root
text_setter_dirty_self(d, b) == [d EXCEPT ![b] = "True"]

text_setter_dirty(d, b) == [d EXCEPT ![root(b)] = "True"]

(***************************************************************************)
(* Application.                                                            *)
(***************************************************************************)
\* Application.has_active_textbox
has_active_textbox(wins, tbs) ==
  \E i \in 1..Len(wins) :
    wins[i].textbox # 0 /\ tbs[wins[i].textbox].is_active

\* the textboxes a queued callback still refers to
Referenced(rdy) == {rdy[i].tb : i \in 1..Len(rdy)} \ {0}

RECURSIVE NewIds(_, _, _)
NewIds(used, n, from) ==
  IF n = 0 THEN <<>>
  ELSE IF from \in used THEN NewIds(used, n, from + 1)
       ELSE <<from>> \o NewIds(used, n - 1, from + 1)

IndexOf(s, x) == CHOOSE i \in 1..Len(s) : s[i] = x

\* Application.add_windows: one (box, textbox) entry per box, appended to
\* wins; an editable box gets a new AsyncTextbox, the others None (0)
add_windows(wins, boxes, ids) ==
  LET eds == SelectSeq(boxes, LAMBDA b : editable[b])
  IN wins \o [i \in 1..Len(boxes) |->
                [box |-> boxes[i],
                 textbox |-> IF editable[boxes[i]]
                             THEN ids[IndexOf(eds, boxes[i])] ELSE 0]]

\* a recalculation that forgets to empty the window list first
recalculate_windows_keep(wins, theRoot, ids) ==
  add_windows(wins, traverse_pre_order(theRoot), ids)

\* Application.recalculate_windows: self.windows = [], then add_windows of
\* the root's pre-order traversal
recalculate_windows(wins, theRoot, ids) ==
  add_windows(<<>>, traverse_pre_order(theRoot), ids)

NumEditable == Cardinality({b \in Boxes : editable[b]})

\* the textbox objects after the windows are rebuilt: the new ones, and the
\* old ones a queued callback still holds
Rebuilt(tbs, wins, rdy) ==
  LET kept == Referenced(rdy) \cap DOMAIN tbs
      made == {wins[i].textbox : i \in 1..Len(wins)} \ {0}
      boxOf(id) == wins[CHOOSE i \in 1..Len(wins) : wins[i].textbox = id].box
  IN [id \in kept \cup made |->
        IF id \in kept /\ id \notin made THEN tbs[id]
        ELSE AsyncTextbox(boxOf(id))]

\* Application.edit: the textbox of the first window of the box.  With no
\* window for the box (IndexError) nothing happens; a box that is not
\* editable has textbox None (0), the call raises and changes nothing.
edit_textbox(wins, box) ==
  LET S == {i \in 1..Len(wins) : wins[i].box = box}
  IN IF S = {} THEN 0 ELSE wins[CHOOSE i \in S : \A j \in S : i <= j].textbox

\* AsyncTextbox.edit: the textbox becomes active and its _edit is scheduled
edit_textboxes(tbs, wins, box) ==
  LET id == edit_textbox(wins, box)
  IN IF id = 0 THEN tbs ELSE [tbs EXCEPT ![id].is_active = TRUE]

edit_ready(rdy, wins, box, callback) ==
  LET id == edit_textbox(wins, box)
  IN IF id = 0 THEN rdy ELSE schedule(rdy, EditTask(id, callback))

(***************************************************************************)
(* The state after Application(root=Root): __init__ builds the windows and *)
(* marks the root dirty.  Nothing is registered yet.                       *)
(***************************************************************************)
Init ==
  /\ pc = "setup"
  /\ _registry = <<>>
  /\ windows = recalculate_windows(<<>>, "Root", NewIds({}, NumEditable, 1))
  /\ textboxes = Rebuilt(<<>>, windows, <<>>)
  /\ ready = <<>>
  /\ timer = 0
  /\ ntodo = 0
  /\ stopping = FALSE
  /\ stopMode \in {"flag", "callback"}
  /\ closed = FALSE
  /\ dirty = [b \in Boxes |-> IF b = "Root" THEN "True" ELSE "unset"]
  /\ text = [b \in Boxes |-> NoText]
  /\ keysRead = 0
  /\ faulted = FALSE
  /\ teardowns = 0
  /\ registered = [e \in EventIds \cup Keys |-> <<>>]
  /\ owed = <<>>
  /\ sinceQuit = -1
  /\ queuedAtQuit = 0
  /\ last = Step1("init")
  /\ box_children = children
  /\ box_parent = parent
  /\ style = [b \in Boxes |-> Style]
  /\ _available_height = ("Root" :> FixtureSize)
  /\ _available_width = ("Root" :> FixtureSize)
  /\ _text_offset = [b \in Boxes |-> 0]

RECURSIVE SumLen(_, _)
SumLen(reg, S) ==
  IF S = {} THEN 0
  ELSE LET e == CHOOSE x \in S : TRUE
       IN Len(reg[e]) + SumLen(reg, S \ {e})

(***************************************************************************)
(* The main program: registrations, then `with app: app.run()`.            *)
(***************************************************************************)
\* app.on(event, fn)
On(event, fn) ==
  /\ pc = "setup"
  /\ SumLen(registered, DOMAIN registered) < MaxRegs
  /\ _registry' = on(_registry, event, fn)
  /\ registered' = [registered EXCEPT ![event] = Append(@, fn)]
  /\ last' = Step1("on")
  /\ UNCHANGED boxVars
  /\ UNCHANGED <<pc, windows, textboxes, ready, timer, ntodo, stopping,
                 stopMode, closed, dirty, text, keysRead, faulted, teardowns, owed,
                 sinceQuit, queuedAtQuit>>

\* Application.__enter__: the terminal goes to noecho, cbreak, keypad
Enter ==
  /\ pc = "setup"
  /\ pc' = "entered"
  /\ last' = Step1("enter")
  /\ UNCHANGED boxVars
  /\ UNCHANGED <<_registry, windows, textboxes, ready, timer, ntodo,
                 stopping, stopMode, closed, dirty, text, keysRead, faulted,
                 teardowns, registered, owed, sinceQuit, queuedAtQuit>>

\* Application.run, up to run_forever: the first poll, the first render and
\* the ready handlers are queued, in this order
run_ready(reg) ==
  schedule_all(schedule(schedule(<<>>, PollTask), RenderTask),
               handlers(reg, "ready"))

Run ==
  /\ pc = "entered"
  /\ pc' = "running"
  /\ ready' = run_ready(_registry)
  /\ _registry' = getitem(_registry, "ready")
  /\ owed' = registered["ready"]
  /\ last' = Step1("run")
  /\ UNCHANGED boxVars
  /\ UNCHANGED <<windows, textboxes, timer, ntodo, stopping, stopMode, closed,
                 dirty,
                 text, keysRead, faulted, teardowns, registered, sinceQuit,
                 queuedAtQuit>>

\* a loop that ignores stop()
run_forever_ignores_stop(stop) == TRUE

\* run_forever goes on to another turn unless stop() was called
run_forever_continues(stop) == ~stop

\* One turn of the loop begins: a timer that is due joins the end of the
\* queue, and the turn will serve what is queued now.  With nothing queued
\* the loop sleeps until the timer is due.
Turn ==
  /\ pc = "running"
  /\ ntodo = 0
  /\ run_forever_continues(stopping)
  /\ \E due \in BOOLEAN :
       /\ due => timer > 0
       /\ (ready = <<>> /\ timer > 0) => due
       /\ ready' = IF due THEN Append(ready, PollTask) ELSE ready
       /\ timer' = IF due THEN timer - 1 ELSE timer
  /\ ready' # <<>>
  /\ ntodo' = Len(ready')
  /\ last' = Step1("turn")
  /\ UNCHANGED boxVars
  /\ UNCHANGED <<pc, _registry, windows, textboxes, stopping, stopMode, closed,
                 dirty,
                 text, keysRead, faulted, teardowns, registered, owed,
                 sinceQuit, queuedAtQuit>>

\* run_forever returns at the end of the turn in which stop() was called
Return ==
  /\ pc = "running"
  /\ ntodo = 0
  /\ ~run_forever_continues(stopping)
  /\ pc' = "returned"
  /\ stopping' = FALSE
  /\ last' = Step1("return")
  /\ UNCHANGED boxVars
  /\ UNCHANGED <<_registry, windows, textboxes, ready, timer, ntodo, stopMode,
                 closed, dirty, text, keysRead, faulted, teardowns, registered, owed,
                 sinceQuit, queuedAtQuit>>

\* A fault (KeyboardInterrupt) escapes run_forever: run() catches it,
\* closes the loop and returns
Fault ==
  /\ pc = "running"
  /\ pc' = "returned"
  /\ faulted' = TRUE
  /\ closed' = TRUE
  /\ last' = Step1("fault")
  /\ UNCHANGED boxVars
  /\ UNCHANGED <<_registry, windows, textboxes, ready, timer, ntodo,
                 stopping, stopMode, dirty, text, keysRead, teardowns, registered,
                 owed, sinceQuit, queuedAtQuit>>

\* an __exit__ that gives up when the loop is closed already
exit_teardowns_unless_closed(n, wasClosed) == IF wasClosed THEN n ELSE n + 1

\* Application.__exit__: loop.close() (a closed loop stays closed), then
\* nocbreak, keypad(0), echo, endwin
exit_teardowns(n, wasClosed) == n + 1

Exit ==
  /\ pc = "returned"
  /\ pc' = "exited"
  /\ closed' = TRUE
  /\ teardowns' = exit_teardowns(teardowns, closed)
  /\ last' = Step1("exit")
  /\ UNCHANGED boxVars
  /\ UNCHANGED <<_registry, windows, textboxes, ready, timer, ntodo,
                 stopping, stopMode, dirty, text, keysRead, faulted, registered, owed,
                 sinceQuit, queuedAtQuit>>

(***************************************************************************)
(* The loop serves the callback at the head of the queue.                  *)
(***************************************************************************)
Serving(kind) ==
  /\ pc = "running"
  /\ ntodo > 0
  /\ Head(ready).kind = kind

Served ==
  /\ ntodo' = ntodo - 1
  /\ sinceQuit' = IF sinceQuit >= 0 THEN sinceQuit + 1 ELSE sinceQuit
  /\ UNCHANGED <<pc, stopMode, closed, faulted, teardowns, registered,
                 queuedAtQuit>>
  /\ UNCHANGED boxVars

\* Application._process_key.  With an active textbox the key is not read;
\* key = "" is getkey raising curses.error (no key); otherwise every
\* handler of the key is scheduled.  finally: the next poll is timed.
_process_key_registry(reg, active, key) ==
  IF active \/ key = "" THEN reg ELSE getitem(reg, key)

_process_key_ready(rdy, reg, active, key) ==
  IF active \/ key = "" THEN rdy ELSE schedule_all(rdy, handlers(reg, key))

\* a poll that times the next poll in the try body, not in finally
_process_key_timer_try(t, active, key) ==
  IF ~active /\ key = "" THEN t ELSE t + 1

_process_key_timer(t, active, key) == t + 1

ProcessKey ==
  /\ Serving("_process_key")
  /\ LET active == has_active_textbox(windows, textboxes)
     IN \E key \in Keys \cup {""} :
          /\ active => key = ""
          /\ key # "" => keysRead < MaxKeys
          /\ keysRead' = IF key = "" THEN keysRead ELSE keysRead + 1
          /\ _registry' = _process_key_registry(_registry, active, key)
          /\ ready' = _process_key_ready(Tail(ready), _registry, active, key)
          /\ timer' = _process_key_timer(timer, active, key)
          /\ owed' = IF key = "" THEN owed ELSE owed \o registered[key]
          /\ last' = Step5("_process_key", key, 0, "",
                           IF active THEN "active"
                           ELSE IF key = "" THEN "nokey" ELSE "read")
  /\ Served
  /\ UNCHANGED <<windows, textboxes, stopping, dirty, text>>

\* behaviors.render
render_windows(wins, d, ids) ==
  IF d["Root"] = "True" THEN recalculate_windows(wins, "Root", ids) ELSE wins

render_dirty(d) ==
  IF d["Root"] = "True" THEN [d EXCEPT !["Root"] = "False"] ELSE d

\* a render pass that does not schedule the next one
render_ready_once(rdy) == rdy

render_ready(rdy) == schedule(rdy, RenderTask)

Render ==
  /\ Serving("render")
  /\ windows' = render_windows(windows, dirty,
                               NewIds(Referenced(Tail(ready)), NumEditable, 1))
  /\ textboxes' = IF dirty["Root"] = "True"
                  THEN Rebuilt(textboxes, windows', Tail(ready))
                  ELSE textboxes
  /\ dirty' = render_dirty(dirty)
  /\ ready' = render_ready(Tail(ready))
  /\ last' = Step5("render", "", 0, "",
                   IF dirty["Root"] = "True" THEN "dirty" ELSE "clean")
  /\ Served
  /\ UNCHANGED <<_registry, timer, stopping, text, keysRead, owed>>

ServingHandler(fn) == Serving("handler") /\ Head(ready).fn = fn

\* behaviors.quit: app.loop.stop(), which sets the loop's stop flag or, in
\* the older loop, queues the callback that raises out of run_forever
quit_stopping(stop, mode) == IF mode = "flag" THEN TRUE ELSE stop

quit_ready(rdy, mode) ==
  IF mode = "callback" THEN Append(rdy, StopTask) ELSE rdy

Quit ==
  /\ ServingHandler("quit")
  /\ stopping' = quit_stopping(stopping, stopMode)
  /\ ready' = quit_ready(Tail(ready), stopMode)
  /\ owed' = Tail(owed)
  /\ ntodo' = ntodo - 1
  /\ sinceQuit' = sinceQuit + 1
  /\ queuedAtQuit' = IF sinceQuit < 0 THEN Len(Tail(ready)) ELSE queuedAtQuit
  /\ last' = Step1("quit")
  /\ UNCHANGED boxVars
  /\ UNCHANGED <<pc, _registry, windows, textboxes, timer, stopMode, closed,
                 dirty, text, keysRead, faulted, teardowns, registered>>

\* the older loop.stop(): its callback raises _StopError, which ends
\* run_forever where the turn stands
StopError ==
  /\ Serving("_raise_stop_error")
  /\ pc' = "returned"
  /\ ready' = Tail(ready)
  /\ ntodo' = ntodo - 1
  /\ last' = Step1("return")
  /\ UNCHANGED boxVars
  /\ UNCHANGED <<_registry, windows, textboxes, timer, stopping, stopMode,
                 closed, dirty, text, keysRead, faulted, teardowns,
                 registered, owed, sinceQuit, queuedAtQuit>>

\* a user handler that writes a listing into a box of the tree (as
\* show_files does): box.text = ls
SetText ==
  /\ ServingHandler("set_text")
  /\ \E b \in Boxes :
       /\ text' = text_setter(text, b, ListingText)
       /\ dirty' = text_setter_dirty(dirty, b)
       /\ last' = Step5("set_text", "", 0, "", b)
  /\ ready' = Tail(ready)
  /\ owed' = Tail(owed)
  /\ Served
  /\ UNCHANGED <<_registry, windows, textboxes, timer, stopping, keysRead>>

\* user handlers that start an edit: edit_AA is app.edit(AA, callback=again),
\* edit_B is app.edit(B)
EditBox(fn) == IF fn = "edit_AA" THEN "AA" ELSE "B"

EditCallback(fn) == IF fn = "edit_AA" THEN "again" ELSE ""

EditHandler ==
  /\ \E fn \in {"edit_AA", "edit_B"} :
       /\ ServingHandler(fn)
       /\ textboxes' = edit_textboxes(textboxes, windows, EditBox(fn))
       /\ ready' = edit_ready(Tail(ready), windows, EditBox(fn),
                              EditCallback(fn))
       /\ last' = Step5(fn, "", edit_textbox(windows, EditBox(fn)),
                        EditCallback(fn), "")
  /\ owed' = Tail(owed)
  /\ Served
  /\ UNCHANGED <<_registry, windows, timer, stopping, dirty, text, keysRead>>

\* behaviors._edit: one keystroke of an edit session.  getch blocks until a
\* key is there.  A command that raises ends the task where it stands.
_edit_textbox(tb, out) ==
  IF out.raised THEN out.tb
  ELSE IF ~truthy(out.ret) THEN [out.tb EXCEPT !.is_active = FALSE]
       ELSE out.tb

_edit_text(txt, box, out) ==
  IF out.raised THEN txt
  ELSE IF ~truthy(out.ret) THEN text_setter(txt, box, <<>>)
       ELSE text_setter(txt, box, out.tb.characters)

\* an editor step that sets the box's text without marking the root
_edit_dirty_never(d, box, out) == d

_edit_dirty(d, box, out) ==
  IF out.raised THEN d ELSE text_setter_dirty(d, box)

_edit_ready(rdy, task, out) ==
  IF out.raised THEN rdy
  ELSE IF ~truthy(out.ret)
       THEN IF task.cb # ""
            THEN schedule(rdy, CallbackTask(task.cb, task.tb,
                                            out.tb.characters))
            ELSE rdy
       ELSE schedule(rdy, EditTaskV(task.tb, task.validate, task.cb))

EditStep(keys) ==
  /\ Serving("_edit")
  /\ keysRead < MaxKeys
  /\ \E key \in keys :
       LET task == Head(ready)
           tb == textboxes[task.tb]
           out == do_command(tb, validate(task.validate, getch(key)))
       IN /\ textboxes' = [textboxes EXCEPT ![task.tb] = _edit_textbox(tb, out)]
          /\ text' = _edit_text(text, tb.box, out)
          /\ dirty' = _edit_dirty(dirty, tb.box, out)
          /\ ready' = _edit_ready(Tail(ready), task, out)
          /\ last' = Step5("_edit", key, task.tb, task.cb,
                           IF out.raised THEN "raised"
                           ELSE IF truthy(out.ret) THEN "continued"
                           ELSE "terminated")
  /\ keysRead' = keysRead + 1
  /\ Served
  /\ UNCHANGED <<_registry, windows, timer, stopping, owed>>

Edit == EditStep(Keys)

\* the completion callback `again`: app.edit(textbox.box)
Callback ==
  /\ Serving("callback")
  /\ LET task == Head(ready)
         box == textboxes[task.tb].box
     IN /\ textboxes' = edit_textboxes(textboxes, windows, box)
        /\ ready' = edit_ready(Tail(ready), windows, box, "")
        /\ last' = Step5("callback", "", edit_textbox(windows, box),
                         task.cb, "")
  /\ Served
  /\ UNCHANGED <<_registry, windows, timer, stopping, dirty, text, keysRead,
                 owed>>

(***************************************************************************)
(* The editor at work: the application registers ready handlers that start *)
(* edit sessions (with or without completion callback, with or without a   *)
(* validator), and the user types any command of the editor's table.       *)
(***************************************************************************)
\* the keys typed into a session: two printable ones and every control key
\* of the_big_map
EditorKeys ==
  {"k", "q", "^A", "^B", "^D", "^E", "^F", "^G", "^H", "^J", "^K", "^L", "^N",
   "^O", "^P"}

EditorRegistrations ==
  { <<"ready", "edit_AA">>, <<"ready", "edit_B">>, <<"ready", "edit_B_no_k">> }

\* AsyncTextbox.edit(validate=validate, callback=callback)
textbox_edit(tbs, id) == [tbs EXCEPT ![id].is_active = TRUE]

textbox_edit_ready(rdy, id, v, callback) ==
  schedule(rdy, EditTaskV(id, v, callback))

\* the handler edit_B_no_k: the textbox of B's window is taken from
\* app.windows and its edit(validate=no_k) is called
EditValidated ==
  /\ ServingHandler("edit_B_no_k")
  /\ LET id == edit_textbox(windows, "B")
     IN /\ textboxes' = textbox_edit(textboxes, id)
        /\ ready' = textbox_edit_ready(Tail(ready), id, "no_k", "")
        /\ last' = Step5("edit_B_no_k", "", id, "", "")
  /\ owed' = Tail(owed)
  /\ Served
  /\ UNCHANGED <<_registry, windows, timer, stopping, dirty, text, keysRead>>

EditorEdit == EditStep(EditorKeys)

EditorNext ==
  \/ \E r \in EditorRegistrations : On(r[1], r[2])
  \/ Enter
  \/ Run
  \/ Turn
  \/ ProcessKey
  \/ Render
  \/ EditHandler
  \/ EditValidated
  \/ EditorEdit
  \/ Callback

EditorSpec == Init /\ [][EditorNext]_vars

Next ==
  \/ \E r \in Registrations : On(r[1], r[2])
  \/ Enter
  \/ Run
  \/ Turn
  \/ Return
  \/ Fault
  \/ Exit
  \/ ProcessKey
  \/ Render
  \/ Quit
  \/ StopError
  \/ SetText
  \/ EditHandler
  \/ Edit
  \/ Callback

Spec == Init /\ [][Next]_vars

(***************************************************************************)
(* Properties.                                                             *)
(***************************************************************************)
BoxesOf(wins) == [i \in 1..Len(wins) |-> wins[i].box]

CountKind(rdy, kind) == Cardinality({i \in 1..Len(rdy) : rdy[i].kind = kind})

HandlerFns(rdy) ==
  LET hs == SelectSeq(rdy, LAMBDA t : t.kind = "handler")
  IN [i \in 1..Len(hs) |-> hs[i].fn]

\* the textboxes with an edit session in progress: active, with the
\* session's next _edit step queued
ActiveEditors ==
  {id \in DOMAIN textboxes :
     /\ textboxes[id].is_active
     /\ \E i \in 1..Len(ready) : ready[i].kind = "_edit" /\ ready[i].tb = id}

SessionInProgress == ActiveEditors # {}

\* the step from this state to the next serves a callback of this kind
Serves(kind) == Serving(kind) /\ last'.op = kind /\ ntodo' = ntodo - 1

\* C1: while an edit session is in progress (started by Application.edit,
\* not yet terminated), no poll cycle reads a key for the registry or
\* schedules a key handler, whatever render passes ran in between.
C1_NoDispatchDuringSession ==
  ~(last.op = "_process_key" /\ last.how = "read" /\ SessionInProgress)

\* C2: in every reachable state at most one text editor is active (is_active
\* true, edit session in progress) application-wide.
C2_AtMostOneActiveEditor == Cardinality(ActiveEditors) <= 1

\* C3: after the text of any box of the tree is set, the root's dirty flag is
\* true, and only a render pass takes the flag from true to false.
C3_DirtyUntilRender ==
  [][ /\ ( \/ text' # text
           \/ last'.op = "set_text"
           \/ (last'.op = "_edit" /\ last'.how \in {"terminated", "continued"}) )
         => dirty'["Root"] = "True"
      /\ (dirty["Root"] = "True" /\ dirty'["Root"] # "True")
         => Serves("render") ]_vars

\* C3 witness: a keystroke of a session on AA (depth 2) set AA's text and the
\* root is dirty.
C3_Witness ==
  /\ last.op = "_edit"
  /\ last.how = "continued"
  /\ textboxes[last.tb].box = "AA"
  /\ text["AA"] = <<"k">>
  /\ dirty["Root"] = "True"

\* C4: a render pass that finds the root dirty rebuilds the window list to one
\* entry per box, in pre-order, and leaves the root clean; one that finds the
\* root clean changes neither; either way exactly one next render pass is
\* scheduled.
C4_RenderPass ==
  [][ Serves("render") =>
        /\ IF dirty["Root"] = "True"
           THEN /\ BoxesOf(windows') = <<"Root", "A", "AA", "AB", "B">>
                /\ dirty'["Root"] = "False"
           ELSE /\ windows' = windows
                /\ dirty' = dirty
        /\ ready' = Append(Tail(ready), RenderTask)
        /\ CountKind(ready', "render") = 1 ]_vars

\* C4 witness: a render pass found the root dirty after an edit changed a
\* box's text, rebuilt the windows and cleared the flag.
C4_Witness ==
  /\ last.op = "render"
  /\ last.how = "dirty"
  /\ text["AA"] # NoText
  /\ dirty["Root"] = "False"
  /\ Len(windows) = Cardinality(Boxes)

\* C5: registering appends to the key's handler list and never removes or
\* replaces an earlier handler; the handlers of a polled key are scheduled in
\* registration order and each is run once, in that order (the handlers
\* queued are exactly those scheduled and not yet run, in order).
C5_RegistrationOrder ==
  /\ \A e \in EventIds \cup Keys : handlers(_registry, e) = registered[e]
  /\ owed = HandlerFns(ready)

\* C5 witness: two handlers were registered for q; q was polled and both ran,
\* quit first and set_text right after it.
C5_Witness ==
  /\ registered["q"] = <<"quit", "set_text">>
  /\ last.op = "set_text"
  /\ sinceQuit = 1
  /\ owed = <<>>

\* C6: a registration under an invalid event key is rejected and leaves the
\* registry unchanged, so no invalid key ever has a handler.
C6_InvalidKeyRejected ==
  \A e \in DOMAIN _registry : ValidEvent(e) \/ _registry[e] = <<>>

PollsPending == timer + CountKind(ready, "_process_key")

\* C7: a poll cycle that gets no key, or a key without handlers, schedules no
\* handler, changes no application state and does not stop the loop; every
\* poll cycle schedules exactly one next poll, and while the loop runs exactly
\* one poll is pending.
C7_PollNoOp ==
  /\ [](pc = "running" => PollsPending = 1)
  /\ [][ Serves("_process_key") =>
           /\ timer' = timer + 1
           /\ (last'.key = "" \/ handlers(_registry, last'.key) = <<>>) =>
                /\ ready' = Tail(ready)
                /\ \A e \in EventIds \cup Keys :
                     handlers(_registry', e) = handlers(_registry, e)
                /\ windows' = windows
                /\ textboxes' = textboxes
                /\ dirty' = dirty
                /\ text' = text
                /\ stopping' = stopping
                /\ pc' = "running" ]_vars

\* C7 witness: a poll read a key that has no handler and the next poll is
\* timed.
C7_Witness ==
  /\ last.op = "_process_key"
  /\ last.how = "read"
  /\ registered[last.key] = <<>>
  /\ pc = "running"
  /\ timer = 1

\* C8: inside `with app: app.run()` the terminal teardown runs exactly once
\* on every exit path: it has not run before __exit__, __exit__ can always
\* run once run() has returned, after a quit or after a fault, and it has run
\* once after __exit__.
C8_TeardownOnce ==
  /\ teardowns = (IF pc = "exited" THEN 1 ELSE 0)
  /\ pc = "returned" => ENABLED Exit

\* C8 witness: the loop ended by a fault and the teardown ran once.
C8_Witness == pc = "exited" /\ faulted /\ teardowns = 1

\* C9 (as stated): once the quit handler has run, no poll cycle, render pass,
\* key handler or edit task executes.
C9_NothingAfterQuit == sinceQuit <= 0

\* the loop has been told to stop and has not stopped yet
StopPending ==
  stopping \/ \E i \in 1..Len(ready) : ready[i].kind = "_raise_stop_error"

\* C9 (amended): once the quit handler has run, at most the callbacks that
\* were already queued when it ran still execute, nothing scheduled after it
\* ran executes, and the loop stays bound to stop: with the stop flag set no
\* new turn starts and run() returns at the end of the turn.
C9_StopsAfterQueued ==
  sinceQuit >= 0 =>
    /\ sinceQuit <= queuedAtQuit
    /\ pc = "running" => StopPending
    /\ (pc = "running" /\ stopping /\ ntodo = 0)
       => (ENABLED Return /\ ~ENABLED Turn)

\* C9 witness: run() returned after quit, and a callback of quit's turn ran
\* after quit.
C9_Witness ==
  /\ pc = "returned"
  /\ last.op = "return"
  /\ sinceQuit >= 1

\* C10: the terminate command received while the editor is active makes it
\* inactive, sets the box's text to the empty string, does not re-arm the
\* keystroke wait and, if a completion callback was supplied, schedules it
\* exactly once with the buffer as it was at termination.
C10_Terminate ==
  [][ ( /\ Serves("_edit")
        /\ last'.key = "^G"
        /\ textboxes[Head(ready).tb].is_active ) =>
        LET task == Head(ready)
            tb == textboxes[task.tb]
        IN /\ ~textboxes'[task.tb].is_active
           /\ textboxes'[task.tb].characters = tb.characters
           /\ text'[tb.box] = <<>>
           /\ ready' = Tail(ready) \o
                       (IF task.cb # ""
                        THEN <<CallbackTask(task.cb, task.tb, tb.characters)>>
                        ELSE <<>>) ]_vars

\* C10 witness: a session with a completion callback was terminated with a
\* buffer that is not empty, and the callback holding that buffer is queued.
C10_Witness ==
  /\ last.op = "_edit"
  /\ last.key = "^G"
  /\ last.how = "terminated"
  /\ last.cb = "again"
  /\ textboxes[last.tb].characters # <<>>
  /\ \E i \in 1..Len(ready) :
       ready[i] = CallbackTask("again", last.tb, textboxes[last.tb].characters)

(***************************************************************************)
(* The box tree and its layout on their own: boxes are constructed, given  *)
(* children and styled; no Application is made, so the scheduler's         *)
(* variables keep the values of NoApplication.                             *)
(***************************************************************************)
\* how many style attributes of the tree are given a value of their own
MaxStyled == 2
\* a height or width given as an int, in cells
FixedSize == 10
\* a minimum height or width larger than the root of the fixture
BigMin == 120
\* how many add_child calls are made in all
MaxAdds == 4

appVars ==
  <<pc, _registry, windows, textboxes, ready, timer, ntodo, stopping,
    stopMode, closed, dirty, text, keysRead, faulted, teardowns, registered,
    owed, sinceQuit, queuedAtQuit>>

NoApplication ==
  /\ pc = "setup"
  /\ _registry = <<>>
  /\ windows = <<>>
  /\ textboxes = <<>>
  /\ ready = <<>>
  /\ timer = 0
  /\ ntodo = 0
  /\ stopping = FALSE
  /\ stopMode = "flag"
  /\ closed = FALSE
  /\ dirty = [b \in Boxes |-> "unset"]
  /\ text = [b \in Boxes |-> NoText]
  /\ keysRead = 0
  /\ faulted = FALSE
  /\ teardowns = 0
  /\ registered = [e \in EventIds \cup Keys |-> <<>>]
  /\ owed = <<>>
  /\ sinceQuit = -1
  /\ queuedAtQuit = 0

\* Box.parent of every box, as the constructors set it for these children
parent_of(ch) ==
  [b \in Boxes |->
     IF \E p \in Boxes : \E i \in 1..Len(ch[p]) : ch[p][i] = b
     THEN CHOOSE p \in Boxes : \E i \in 1..Len(ch[p]) : ch[p][i] = b
     ELSE NoBox]

\* Root -> (A, AA, AB, B): four boxes side by side in one parent
flat_children ==
  [b \in Boxes |-> IF b = "Root" THEN <<"A", "AA", "AB", "B">> ELSE <<>>]

\* the trees laid out: the tree of the test fixture and the flat one
LayoutTrees == {children, flat_children}

Dimensions == {"height", "width"}

StyleAttrs ==
  {"border_collapse", "layout", "min_height", "height", "min_width", "width"}

\* the values a style attribute is given
StyleValues(attr) ==
  CASE attr = "border_collapse"               -> BOOLEAN
    [] attr = "layout"                        -> {Vertical, Horizontal}
    [] attr \in {"min_height", "min_width"}   -> {0, BigMin}
    [] attr \in {"height", "width"}           -> {Auto, Fixed(FixedSize)}

\* the style attributes that differ from the defaults of the class
Styled(st) ==
  {ba \in Boxes \X StyleAttrs : st[ba[1]][ba[2]] # Style[ba[2]]}

\* the boxes are constructed with default styles; no size is set yet
LayoutInit ==
  /\ NoApplication
  /\ last = Step1("init")
  /\ box_children \in LayoutTrees
  /\ box_parent = parent_of(box_children)
  /\ style = [b \in Boxes |-> Style]
  /\ _available_height = <<>>
  /\ _available_width = <<>>
  /\ _text_offset = [b \in Boxes |-> 0]

\* root.available_height = 100, as the fixture and recalculate_windows do
SetAvailableHeight ==
  /\ "Root" \notin DOMAIN _available_height
  /\ _available_height' = ("Root" :> FixtureSize)
  /\ last' = Step1("available_height")
  /\ UNCHANGED <<appVars, box_children, box_parent, style, _available_width,
                 _text_offset>>

\* root.available_width = 100
SetAvailableWidth ==
  /\ "Root" \notin DOMAIN _available_width
  /\ _available_width' = ("Root" :> FixtureSize)
  /\ last' = Step1("available_width")
  /\ UNCHANGED <<appVars, box_children, box_parent, style, _available_height,
                 _text_offset>>

\* root.available_height = None: the override is cleared
ClearAvailableHeight ==
  /\ "Root" \in DOMAIN _available_height
  /\ _available_height' = <<>>
  /\ last' = Step1("clear_available_height")
  /\ UNCHANGED <<appVars, box_children, box_parent, style, _available_width,
                 _text_offset>>

\* root.available_width = None
ClearAvailableWidth ==
  /\ "Root" \in DOMAIN _available_width
  /\ _available_width' = <<>>
  /\ last' = Step1("clear_available_width")
  /\ UNCHANGED <<appVars, box_children, box_parent, style, _available_height,
                 _text_offset>>

\* box.style.attr = val
SetStyle ==
  /\ \E b \in Boxes : \E attr \in StyleAttrs : \E val \in StyleValues(attr) :
       /\ style[b][attr] # val
       /\ style' = [style EXCEPT ![b][attr] = val]
       /\ last' = Step5("style", attr, 0, "", b)
  /\ Cardinality(Styled(style')) <= MaxStyled
  /\ UNCHANGED <<appVars, box_children, box_parent, _available_height,
                 _available_width, _text_offset>>

LayoutNext ==
  \/ SetAvailableHeight
  \/ SetAvailableWidth
  \/ ClearAvailableHeight
  \/ ClearAvailableWidth
  \/ SetStyle

LayoutSpec == LayoutInit /\ [][LayoutNext]_vars

\* the tree of the fixture, with the root's size set to 100 x 100
FixtureTree ==
  /\ box_children = children
  /\ box_parent = parent
  /\ _available_height = ("Root" :> FixtureSize)
  /\ _available_width = ("Root" :> FixtureSize)

\* every style is the default
DefaultFixture == FixtureTree /\ style = [b \in Boxes |-> Style]

\* every style is the default but A's layout, which is Horizontal
HorizontalA ==
  /\ FixtureTree
  /\ style = [[b \in Boxes |-> Style] EXCEPT !["A"].layout = Horizontal]

\* C13: in the fixture tree with default styles and a 100 x 100 root,
\* available_height is 49 for A and B and 23 for AA and AB.
C13_AvailableHeight ==
  DefaultFixture =>
    /\ available_height("A") = 49
    /\ available_height("B") = 49
    /\ available_height("AA") = 23
    /\ available_height("AB") = 23

\* C14: in the same tree available_width is 98 for A and B and 96 for AA and
\* AB; with A's layout Horizontal it is still 98 for A and B, and 48 for AA
\* and AB.
C14_AvailableWidth ==
  /\ DefaultFixture =>
       /\ available_width("A") = 98
       /\ available_width("B") = 98
       /\ available_width("AA") = 96
       /\ available_width("AB") = 96
  /\ HorizontalA =>
       /\ available_width("A") = 98
       /\ available_width("B") = 98
       /\ available_width("AA") = 48
       /\ available_width("AB") = 48

\* C15: in the same tree with default styles upper_left is (0,0) for the
\* root, (1,1) for A, (1,50) for B, (2,2) for AA, (2,25) for AB, and
\* lower_right of the root is (100,100).
C15_Corners ==
  DefaultFixture =>
    /\ upper_left("Root") = Point(0, 0)
    /\ upper_left("A") = Point(1, 1)
    /\ upper_left("B") = Point(1, 50)
    /\ upper_left("AA") = Point(2, 2)
    /\ upper_left("AB") = Point(2, 25)
    /\ lower_right("Root") = Point(100, 100)

\* C16: switching only A's layout from Vertical to Horizontal takes
\* upper_left(AB) from (2,25) to (50,2), while upper_left of the root, A, B
\* and AA stays (0,0), (1,1), (1,50) and (2,2).
C16_HorizontalSwitch ==
  [][ (DefaultFixture /\ HorizontalA') =>
        /\ upper_left("AB") = Point(2, 25)
        /\ upper_left("AB")' = Point(50, 2)
        /\ upper_left("Root") = Point(0, 0) /\ upper_left("Root")' = Point(0, 0)
        /\ upper_left("A") = Point(1, 1) /\ upper_left("A")' = Point(1, 1)
        /\ upper_left("B") = Point(1, 50) /\ upper_left("B")' = Point(1, 50)
        /\ upper_left("AA") = Point(2, 2) /\ upper_left("AA")' = Point(2, 2)
    ]_vars

\* C17: a non-root box whose size in a dimension is Auto and that has no
\* override gets, with I the parent's available space less the border
\* adjustment (0 with border-collapse, else 2): I on the cross axis of the
\* parent's layout, and floor((I - fixed sizes of its siblings) / number of
\* Auto siblings, itself included) on the layout axis.
C17_EvenShare ==
  \A b \in Boxes : \A main \in Dimensions :
    LET p == box_parent[b]
        override == IF main = "height" THEN _available_height
                    ELSE _available_width
        I == __available_dimension(p, main)
             - (IF style[p].border_collapse THEN 0 ELSE 2)
        cross == IF main = "height" THEN Horizontal ELSE Vertical
        sibs == box_children[p]
        fixed == {i \in 1..Len(sibs) : style[sibs[i]][main].kind = "int"}
        autos == {i \in 1..Len(sibs) : style[sibs[i]][main] = Auto}
        taken == sum([i \in 1..Len(sibs) |->
                        IF i \in fixed THEN style[sibs[i]][main].n ELSE 0])
    IN (p # NoBox /\ style[b][main] = Auto /\ b \notin DOMAIN override) =>
         __available_dimension(b, main) =
           (IF style[p].layout = cross THEN I
            ELSE (I - taken) \div Cardinality(autos))

\* C18: for every box, in every tree and every style, height(box) >=
\* style.min_height and width(box) >= style.min_width.
C18_AtLeastMinimum ==
  \A b \in Boxes :
    /\ height(b) >= style[b].min_height
    /\ width(b) >= style[b].min_width

(***************************************************************************)
(* Growing the tree: the boxes are constructed without children, and       *)
(* add_child / add_children are called on them, in any order and with any  *)
(* box, as the constructors and the application do.                        *)
(***************************************************************************)
TreeInit ==
  /\ NoApplication
  /\ last = Step1("init")
  /\ box_children = [b \in Boxes |-> <<>>]
  /\ box_parent = [b \in Boxes |-> NoBox]
  /\ style = [b \in Boxes |-> Style]
  /\ _available_height = <<>>
  /\ _available_width = <<>>
  /\ _text_offset = [b \in Boxes |-> 0]

\* Box.add_child: child.parent = self; self.children.append(child)
add_child_parent(par, self, child) == [par EXCEPT ![child] = self]

add_child_children(ch, self, child) == [ch EXCEPT ![self] = Append(@, child)]

NumAdded == SumLen(box_children, Boxes)

AddChild ==
  /\ NumAdded < MaxAdds
  /\ \E self \in Boxes : \E child \in Boxes :
       /\ box_parent' = add_child_parent(box_parent, self, child)
       /\ box_children' = add_child_children(box_children, self, child)
       /\ last' = Step5("add_child", "", 0, child, self)
  /\ UNCHANGED <<appVars, style, _available_height, _available_width,
                 _text_offset>>

\* Box.add_children(c1, c2): add_child for each, in order
AddChildren ==
  /\ NumAdded + 2 <= MaxAdds
  /\ \E self \in Boxes : \E c1 \in Boxes : \E c2 \in Boxes :
       /\ box_parent' =
            add_child_parent(add_child_parent(box_parent, self, c1), self, c2)
       /\ box_children' =
            add_child_children(add_child_children(box_children, self, c1),
                               self, c2)
       /\ last' = Step5("add_children", c1, 0, c2, self)
  /\ UNCHANGED <<appVars, style, _available_height, _available_width,
                 _text_offset>>

TreeNext == AddChild \/ AddChildren

TreeSpec == TreeInit /\ [][TreeNext]_vars

\* what a traversal that never returns ends with
RecursionError == "RecursionError"

\* Box.traverse_pre_order, recursing at most depth boxes deep
RECURSIVE traverse_pre_order_to(_, _)
traverse_pre_order_to(b, depth) ==
  IF depth = 0 THEN <<RecursionError>>
  ELSE <<b>> \o flatten([i \in 1..Len(box_children[b]) |->
                           traverse_pre_order_to(box_children[b][i],
                                                 depth - 1)])

\* Box.traverse_pre_order on the tree as it stands.  A recursion deeper than
\* there are boxes follows a cycle of child links and never returns: the
\* interpreter ends it with RecursionError.
box_traverse_pre_order(b) ==
  LET t == traverse_pre_order_to(b, Cardinality(Boxes) + 1)
  IN IF \E i \in 1..Len(t) : t[i] = RecursionError
     THEN <<RecursionError>> ELSE t

\* the children of the boxes of S
Kids(S) ==
  UNION {{box_children[p][i] : i \in 1..Len(box_children[p])} : p \in S}

\* the boxes reached from the boxes of S by at most n child links
RECURSIVE Reached(_, _)
Reached(S, n) == IF n = 0 THEN S ELSE Reached(S \cup Kids(S), n - 1)

\* the box and everything below it
Subtree(b) == Reached({b}, Cardinality(Boxes))

\* everything below the box
Descendants(b) == Reached(Kids({b}), Cardinality(Boxes))

\* C19: traverse_pre_order of any box returns the box first, followed by the
\* pre-order traversals of its children in children order, so that every box
\* of the subtree appears exactly once and every box precedes all of its
\* descendants.
C19_PreOrder ==
  \A b \in Boxes :
    LET t == box_traverse_pre_order(b)
        cs == box_children[b]
    IN /\ t # <<RecursionError>>
       /\ t = <<b>> \o flatten([i \in 1..Len(cs) |->
                                  box_traverse_pre_order(cs[i])])
       /\ \A x \in Subtree(b) :
            Cardinality({i \in 1..Len(t) : t[i] = x}) = 1
       /\ \A i \in 1..Len(t) : \A j \in 1..Len(t) :
            t[j] \in Descendants(t[i]) => i < j

\* how often a box is listed as a child, over all children lists
Listings(b) ==
  Cardinality({pi \in Boxes \X (1..MaxAdds + 1) :
                 /\ pi[2] <= Len(box_children[pi[1]])
                 /\ box_children[pi[1]][pi[2]] = b})

IsPrefix(s, t) == Len(s) <= Len(t) /\ SubSeq(t, 1, Len(s)) = s

\* C20: after any sequence of add_child / add_children calls the relation is
\* a rooted tree: every box is listed once, in the children of the box its
\* parent reference names, and in no other list; a box without parent is
\* listed nowhere; no box is below itself; and every children list keeps
\* its insertion order (a call only appends to it).
C20_RootedTree ==
  /\ [](\A b \in Boxes :
          /\ IF box_parent[b] = NoBox THEN Listings(b) = 0
             ELSE /\ Listings(b) = 1
                  /\ \E i \in 1..Len(box_children[box_parent[b]]) :
                       box_children[box_parent[b]][i] = b
          /\ b \notin Descendants(b))
  /\ [][\A p \in Boxes : IsPrefix(box_children[p], box_children'[p])]_vars

\* C11: an active editor becomes inactive only on the terminate command (or
\* newline on a one-row surface) or on a validation rejection; every other
\* command of the table leaves it active, re-arms the next keystroke wait
\* and sets the box's text to the editor's buffer.
C11_OnlyTerminateEnds ==
  [][ (Serves("_edit") /\ textboxes[Head(ready).tb].is_active) =>
        LET task == Head(ready)
            tb == textboxes[task.tb]
            ch == getch(last'.key)
            rejected == task.validate # "" /\ validate(task.validate, ch) = 0
            terminate == ch = BEL \/ (ch = NL /\ maxy(tb) = 0)
        IN /\ ~textboxes'[task.tb].is_active => (terminate \/ rejected)
           /\ (~terminate /\ ~rejected) =>
                /\ textboxes'[task.tb].is_active
                /\ ready' = Append(Tail(ready), task)
                /\ text'[tb.box] = textboxes'[task.tb].characters ]_vars

\* C12: when the caller's validator rejects a keystroke, the editor's buffer
\* and cursor are unchanged, the editor stays active and the next keystroke
\* wait is re-armed.
C12_RejectionKeepsSession ==
  [][ ( /\ Serves("_edit")
        /\ textboxes[Head(ready).tb].is_active
        /\ Head(ready).validate # ""
        /\ validate(Head(ready).validate, getch(last'.key)) = 0 ) =>
        LET task == Head(ready)
            tb == textboxes[task.tb]
        IN /\ textboxes'[task.tb].characters = tb.characters
           /\ textboxes'[task.tb].cursor = tb.cursor
           /\ textboxes'[task.tb].is_active
           /\ ready' = Append(Tail(ready), task) ]_vars

(***************************************************************************)
(* The editor's buffer and cursor (EditorSpec).                            *)
(***************************************************************************)
\* C21: in every reachable editor state, after any sequence of insertions,
\* moves and backspaces starting from the empty buffer, the cursor is at
\* least 0 and at most the length of the buffer.
C21_CursorInBuffer ==
  \A id \in DOMAIN textboxes :
    /\ 0 <= textboxes[id].cursor
    /\ textboxes[id].cursor <= Len(textboxes[id].characters)

\* C21 witness: two insertions and a backspace left one character in the
\* buffer, with the cursor behind it.
C21_Witness ==
  /\ last.op = "_edit"
  /\ last.key = "^H"
  /\ keysRead = 3
  /\ Len(textboxes[last.tb].characters) = 1
  /\ textboxes[last.tb].cursor = 1

\* C22: 'move right' with any buffer and any cursor c, the empty buffer and
\* c = len(buffer) included, sets the cursor to min(c + 1, len(buffer)),
\* leaves the buffer unchanged and completes without a fault.
C22_MoveRight ==
  [][ (Serves("_edit") /\ getch(last'.key) \in rightward_keys) =>
        LET task == Head(ready)
            tb == textboxes[task.tb]
        IN /\ last'.how # "raised"
           /\ textboxes'[task.tb].cursor =
                Min(tb.cursor + 1, Len(tb.characters))
           /\ textboxes'[task.tb].characters = tb.characters ]_vars

\* C23: a printable character processed while the editor is active, with
\* buffer b and cursor c, yields buffer b[0..c) + ch + b[c..) and cursor
\* c + 1; afterwards the box's text equals the new buffer and the root is
\* dirty.
C23_InsertPrintable ==
  [][ ( /\ Serves("_edit")
        /\ textboxes[Head(ready).tb].is_active
        /\ isprint(validate(Head(ready).validate, getch(last'.key))) ) =>
        LET task == Head(ready)
            tb == textboxes[task.tb]
            b == tb.characters
            c == tb.cursor
        IN /\ textboxes'[task.tb].characters =
                SubSeq(b, 1, c) \o <<last'.key>> \o SubSeq(b, c + 1, Len(b))
           /\ textboxes'[task.tb].cursor = c + 1
           /\ text'[tb.box] = textboxes'[task.tb].characters
           /\ dirty'["Root"] = "True" ]_vars

\* C23 witness: q was typed in front of k: the buffer is qk, the cursor is
\* between the two, the box shows qk and the root is dirty.
C23_Witness ==
  /\ last.op = "_edit"
  /\ last.key = "q"
  /\ textboxes[last.tb].characters = <<"q", "k">>
  /\ textboxes[last.tb].cursor = 1
  /\ text[textboxes[last.tb].box] = <<"q", "k">>
  /\ dirty["Root"] = "True"

\* C24 (as stated): 'move left' with cursor c > 0 sets the cursor to c - 1
\* and leaves the buffer unchanged; backspace makes the same move and removes
\* exactly one character, the one that was under the cursor before the move
\* (b[c]); with c = 0 the cursor stays 0.
C24_BackspaceUnderCursor ==
  [][ (Serves("_edit") /\ last'.key \in {"^B", "^H"}) =>
        LET task == Head(ready)
            tb == textboxes[task.tb]
            b == tb.characters
            c == tb.cursor
        IN /\ textboxes'[task.tb].cursor = (IF c > 0 THEN c - 1 ELSE 0)
           /\ last'.key = "^B" => textboxes'[task.tb].characters = b
           /\ (last'.key = "^H" /\ c > 0) =>
                /\ Len(textboxes'[task.tb].characters) = Len(b) - 1
                /\ textboxes'[task.tb].characters =
                     SubSeq(b, 1, c) \o SubSeq(b, c + 2, Len(b)) ]_vars

\* C24 (amended): 'move left' with cursor c > 0 sets the cursor to c - 1 and
\* leaves the buffer unchanged; backspace makes the same move and removes
\* exactly one character, the one before the cursor's old position (b[c - 1],
\* the character under the cursor after the move); with c = 0 the cursor
\* stays 0, 'move left' leaves the buffer unchanged and backspace removes the
\* first character of the buffer, if there is one.
C24_BackspaceBeforeCursor ==
  [][ (Serves("_edit") /\ last'.key \in {"^B", "^H"}) =>
        LET task == Head(ready)
            tb == textboxes[task.tb]
            b == tb.characters
            c == tb.cursor
        IN /\ last'.how = "continued"
           /\ textboxes'[task.tb].cursor = (IF c > 0 THEN c - 1 ELSE 0)
           /\ last'.key = "^B" => textboxes'[task.tb].characters = b
           /\ (last'.key = "^H" /\ c > 0) =>
                /\ Len(textboxes'[task.tb].characters) = Len(b) - 1
                /\ textboxes'[task.tb].characters =
                     SubSeq(b, 1, c - 1) \o SubSeq(b, c + 1, Len(b))
           /\ (last'.key = "^H" /\ c = 0) =>
                textboxes'[task.tb].characters = SubSeq(b, 2, Len(b)) ]_vars

\* C24 witness: q, k and a backspace: the k before the cursor is gone, q is
\* left and the cursor is behind it.
C24_Witness ==
  /\ last.op = "_edit"
  /\ last.key = "^H"
  /\ last.how = "continued"
  /\ textboxes[last.tb].characters = <<"q">>
  /\ textboxes[last.tb].cursor = 1

(***************************************************************************)
(* How the available space of a box is resolved (LayoutSpec).              *)
(***************************************************************************)
\* C25: available_height / available_width resolve in this order: an override
\* that is set is returned unchanged, even when the style fixes the
\* dimension, until it is cleared; otherwise a fixed integer style value is
\* returned regardless of the parent; otherwise the value is derived from the
\* parent (its available space less its border adjustment, shared out along
\* its layout axis); a box with no parent, no override and Auto size gets 2.
C25_ResolutionOrder ==
  \A b \in Boxes : \A main \in Dimensions :
    LET p == box_parent[b]
        override == IF main = "height" THEN _available_height
                    ELSE _available_width
        collapse == style[p].border_collapse
        I == __available_dimension(p, main) - (IF collapse THEN 0 ELSE 2)
        cross == IF main = "height" THEN Horizontal ELSE Vertical
        sibs == box_children[p]
        autos == {i \in 1..Len(sibs) : style[sibs[i]][main] = Auto}
        taken == sum([i \in 1..Len(sibs) |->
                        IF style[sibs[i]][main].kind = "int"
                        THEN style[sibs[i]][main].n ELSE 0])
    IN __available_dimension(b, main) =
         (IF b \in DOMAIN override THEN override[b]
          ELSE IF style[b][main].kind = "int" THEN style[b][main].n
          ELSE IF p = NoBox THEN 2
          ELSE IF style[p].layout = cross THEN I
          ELSE ((I - taken) \div Cardinality(autos)) + 1
               - (IF collapse THEN 0 ELSE 1))

\* C25 witness: the root's style fixes both dimensions; its height override
\* was set and cleared again, so the fixed height is returned, while the
\* width override is still set and is returned instead of the fixed width.
C25_Witness ==
  /\ last.op = "clear_available_height"
  /\ style["Root"].height = Fixed(FixedSize)
  /\ style["Root"].width = Fixed(FixedSize)
  /\ "Root" \notin DOMAIN _available_height
  /\ available_height("Root") = FixedSize
  /\ _available_width = ("Root" :> FixtureSize)
  /\ available_width("Root") = FixtureSize

(***************************************************************************)
(* Boxes on their own: the tree of the fixture is constructed, and the     *)
(* program sets the text of boxes, scrolls them and assigns their dirty    *)
(* attribute.  No Application is made.                                     *)
(***************************************************************************)
\* the largest number of rows one scroll call moves by
MaxScroll == 2

\* texts with no, one and two line breaks
BoxTexts ==
  { <<"l", "s">>, <<"l", "\n", "s">>, <<"l", "\n", "s", "\n">> }

\* the boxes given a text and scrolled: the root and a leaf two levels down
ScrolledBoxes == {"Root", "AB"}

ScrollAmounts == ((0 - MaxScroll)..MaxScroll) \ {0}

\* str.count
count(s, x) == Cardinality({i \in 1..Len(s) : s[i] = x})

\* Box.scroll: the offset plus amount, clamped to 0 from below and then to
\* the number of line breaks less one from above
scroll_text_offset(off, txt, amount) ==
  Min(count(txt, "\n") - 1, Max(0, off + amount))

BoxInit ==
  /\ NoApplication
  /\ last = Step1("init")
  /\ box_children = children
  /\ box_parent = parent
  /\ style = [b \in Boxes |-> Style]
  /\ _available_height = <<>>
  /\ _available_width = <<>>
  /\ _text_offset = [b \in Boxes |-> 0]

boxAppVars ==
  <<pc, _registry, windows, textboxes, ready, timer, ntodo, stopping,
    stopMode, closed, keysRead, faulted, teardowns, registered, owed,
    sinceQuit, queuedAtQuit>>

\* box.text = t
BoxSetText ==
  /\ \E b \in ScrolledBoxes : \E t \in BoxTexts :
       /\ text' = text_setter(text, b, t)
       /\ dirty' = text_setter_dirty(dirty, b)
       /\ last' = Step5("text", "", 0, "", b)
  /\ UNCHANGED <<boxAppVars, boxVars>>

\* box.scroll(amount).  With text None, self.text.count raises
\* AttributeError before anything is changed.
Scroll ==
  /\ \E b \in ScrolledBoxes : \E amount \in ScrollAmounts :
       IF text[b] = NoText
       THEN /\ last' = Step5("scroll", "", 0, "raised", b)
            /\ UNCHANGED <<_text_offset, dirty>>
       ELSE /\ _text_offset' =
                 [_text_offset EXCEPT
                    ![b] = scroll_text_offset(@, text[b], amount)]
            /\ dirty' = text_setter_dirty(dirty, b)
            /\ last' = Step5("scroll", "", 0, "scrolled", b)
  /\ UNCHANGED <<boxAppVars, text, box_children, box_parent, style,
                 _available_height, _available_width>>

\* box.dirty = True: Box defines no dirty property, so the assignment sets
\* the attribute of this box
SetDirty ==
  /\ \E b \in Boxes :
       /\ dirty' = [dirty EXCEPT ![b] = "True"]
       /\ last' = Step5("set_dirty", "", 0, "", b)
  /\ UNCHANGED <<boxAppVars, text, boxVars>>

BoxNext == BoxSetText \/ Scroll \/ SetDirty

BoxSpec == BoxInit /\ [][BoxNext]_vars

\* C26: after any sequence of scroll(amount) calls, with positive or negative
\* amounts, on a box with any text (text with no line break included), the
\* box's text_offset is at least 0, and each call leaves the root dirty.
C26_ScrollOffset ==
  /\ [](\A b \in Boxes : _text_offset[b] >= 0)
  /\ [][(last'.op = "scroll" /\ last'.cb = "scrolled")
          => dirty'["Root"] = "True"]_vars

\* C27: setting the dirty flag to true on any non-root box makes the root's
\* dirty flag true; the propagation target is the tree root itself.
C27_DirtyPropagates ==
  [][(last'.op = "set_dirty" /\ last'.how # "Root")
       => dirty'["Root"] = "True"]_vars

\* the rectangle of box b lies within the rectangle of box p
Within(b, p) ==
  /\ upper_left(p).x <= upper_left(b).x
  /\ upper_left(p).y <= upper_left(b).y
  /\ lower_right(b).x <= lower_right(p).x
  /\ lower_right(b).y <= lower_right(p).y

\* C29: for every tree of boxes with Auto sizes under a root whose available
\* size is set explicitly, with border-collapse on or off, every child's
\* rectangle lies within its parent's rectangle, and the sizes of a box's
\* children along its layout axis sum to at most the box's own size on that
\* axis.
C29_ChildrenWithinParent ==
  ( /\ "Root" \in DOMAIN _available_height
    /\ "Root" \in DOMAIN _available_width
    /\ \A b \in Boxes : style[b].height = Auto /\ style[b].width = Auto ) =>
    \A p \in Boxes :
      LET cs == box_children[p]
          main == IF style[p].layout = Vertical THEN "height" ELSE "width"
      IN /\ \A i \in 1..Len(cs) : Within(cs[i], p)
         /\ cs # <<>> =>
              sum([i \in 1..Len(cs) |-> __dimension(cs[i], main)])
                <= __dimension(p, main)

(***************************************************************************)
(* Edit sessions started through Application.edit.                         *)
(***************************************************************************)
\* C30: every edit session started by Application.edit on an editable box
\* begins with an empty buffer and cursor 0, whatever earlier sessions on that
\* box typed and however render passes interleave with the previous session's
\* termination and completion callback.
C30_SessionStartsEmpty ==
  (last.op \in {"edit_AA", "edit_B", "callback"} /\ last.tb # 0) =>
    /\ textboxes[last.tb].is_active
    /\ textboxes[last.tb].characters = <<>>
    /\ textboxes[last.tb].cursor = 0

\* C30 witness: a session on AA typed into its buffer and was terminated; the
\* render pass rebuilt the windows, and the completion callback has started
\* the next session on AA with a new, empty textbox while the callback's
\* textbox still holds what was typed.
C30_Witness ==
  /\ last.op = "callback"
  /\ last.tb # 0
  /\ textboxes[last.tb].box = "AA"
  /\ textboxes[last.tb].characters = <<>>
  /\ \E id \in DOMAIN textboxes :
       /\ id # last.tb
       /\ textboxes[id].box = "AA"
       /\ textboxes[id].characters # <<>>

(***************************************************************************)
(* The application on a loop that is scheduled fairly.  The registrations  *)
(* of the main program are made; run_forever goes from turn to turn and    *)
(* serves the callback at the head of its queue.  No fairness is stated    *)
(* for the keystroke an edit session waits for (getch blocks until the     *)
(* user types) nor for a fault.                                            *)
(***************************************************************************)
\* main programs, as the app.on calls they make in order: an edit on ready
\* and on k with a listing on q; an edit with completion callback on ready,
\* with a listing and quit on q
Programs ==
  { << <<"ready", "edit_B">>, <<"k", "edit_B">>, <<"q", "set_text">> >>,
    << <<"ready", "edit_AA">>, <<"q", "set_text">>, <<"q", "quit">> >> }

RECURSIVE registry_of(_)
registry_of(prog) ==
  IF prog = <<>> THEN <<>>
  ELSE LET r == prog[Len(prog)]
       IN on(registry_of(SubSeq(prog, 1, Len(prog) - 1)), r[1], r[2])

\* the state after Application(root=Root) and the program's registrations
FairInit ==
  /\ pc = "setup"
  /\ \E prog \in Programs :
       /\ _registry = registry_of(prog)
       /\ registered =
            [e \in EventIds \cup Keys |-> handlers(registry_of(prog), e)]
  /\ windows = recalculate_windows(<<>>, "Root", NewIds({}, NumEditable, 1))
  /\ textboxes = Rebuilt(<<>>, windows, <<>>)
  /\ ready = <<>>
  /\ timer = 0
  /\ ntodo = 0
  /\ stopping = FALSE
  /\ stopMode \in {"flag", "callback"}
  /\ closed = FALSE
  /\ dirty = [b \in Boxes |-> IF b = "Root" THEN "True" ELSE "unset"]
  /\ text = [b \in Boxes |-> NoText]
  /\ keysRead = 0
  /\ faulted = FALSE
  /\ teardowns = 0
  /\ owed = <<>>
  /\ sinceQuit = -1
  /\ queuedAtQuit = 0
  /\ last = Step1("init")
  /\ box_children = children
  /\ box_parent = parent
  /\ style = [b \in Boxes |-> Style]
  /\ _available_height = ("Root" :> FixtureSize)
  /\ _available_width = ("Root" :> FixtureSize)
  /\ _text_offset = [b \in Boxes |-> 0]

FairNext ==
  \/ Enter
  \/ Run
  \/ Turn
  \/ Return
  \/ Fault
  \/ Exit
  \/ ProcessKey
  \/ Render
  \/ Quit
  \/ StopError
  \/ SetText
  \/ EditHandler
  \/ Edit
  \/ Callback

\* the main program goes on, the loop starts its next turn, and the callback
\* at the head of the queue is run
LoopFairness ==
  /\ WF_vars(Enter) /\ WF_vars(Run) /\ WF_vars(Exit)
  /\ WF_vars(Turn) /\ WF_vars(Return) /\ WF_vars(StopError)
  /\ WF_vars(ProcessKey) /\ WF_vars(Render) /\ WF_vars(Quit)
  /\ WF_vars(SetText) /\ WF_vars(EditHandler) /\ WF_vars(Callback)

FairSpec == FairInit /\ [][FairNext]_vars /\ LoopFairness

\* a handler task has just set a box's text
Changed == last.op = "set_text" /\ dirty["Root"] = "True"

\* a render pass has just found the root dirty, repainted and cleared it
Repainted ==
  /\ last.op = "render"
  /\ last.how = "dirty"
  /\ dirty["Root"] = "False"
  /\ BoxesOf(windows) = <<"Root", "A", "AA", "AB", "B">>

====
